---- MODULE Spec2Model ----
(***************************************************************************)
(* A model of vibe_scaffold/cli.py: the project scaffolding command.       *)
(*                                                                         *)
(* The state is the filesystem at and below the project root, the clock,   *)
(* and the position and local variables of main().  One action stands for  *)
(* each call main() makes, in the order of the source.                     *)
(*                                                                         *)
(* Strings are sequences of atoms.  An atom is a blank (" "), a letter     *)
(* ("y", "Y") or a word that the program never splits ("web-app").         *)
(* str.strip() and str.lower() are computed on these sequences.            *)
(***************************************************************************)
EXTENDS Integers, Sequences, FiniteSets, TLC

\* --------------------------------------------------------------------------
\* Bounds of the model
\* --------------------------------------------------------------------------

\* Number of times the command is invoked against the same project root.
MaxRuns == 2

\* Number of write_file calls made in a row in SpecWrite.
MaxCalls == 2

\* Number of times the directory planner pair is applied in SpecDirs.
MaxPasses == 2

\* --------------------------------------------------------------------------
\* Strings
\* --------------------------------------------------------------------------

PROJECT_TYPES == { <<"web-app">>, <<"service-api">>, <<"tool-script">> }

TEMPLATES == { <<"default">>, <<"fintech-dapp">> }

\* The value of an argument that was not given (None, or the empty string:
\* the program only tests `if value`).
None == << >>

IsBlank(a) == a = " "

RECURSIVE LStrip(_)
LStrip(s) ==
  IF s # << >> /\ IsBlank(Head(s)) THEN LStrip(Tail(s)) ELSE s

RECURSIVE RStrip(_)
RStrip(s) ==
  IF s # << >> /\ IsBlank(s[Len(s)]) THEN RStrip(SubSeq(s, 1, Len(s) - 1)) ELSE s

\* str.strip()
Strip(s) == RStrip(LStrip(s))

LowerAtom(a) == IF a = "Y" THEN "y" ELSE IF a = "N" THEN "n" ELSE a

\* str.lower()
Lower(s) == [i \in 1..Len(s) |-> LowerAtom(s[i])]

\* --------------------------------------------------------------------------
\* The filesystem under the base directory
\* --------------------------------------------------------------------------

\* A path is the sequence of its segments below the project root; the project
\* root itself is the empty sequence.  The base directory (its parent) exists.
ROOT == << >>

GIT == <<".git">>

META == <<"project_meta.json">>

COMMON_DIRS == << <<"docs">>, <<"tests">>, <<"scripts">>, <<"infra">> >>

SRC == <<"src">>

FRONTEND == <<"src", "frontend">>

BACKEND == <<"src", "backend">>

FRONTEND_SUBDIRS ==
  << FRONTEND \o <<"pages">>, FRONTEND \o <<"components">>,
     FRONTEND \o <<"hooks">>, FRONTEND \o <<"styles">> >>

BACKEND_SUBDIRS ==
  << BACKEND \o <<"api">>, BACKEND \o <<"services">>,
     BACKEND \o <<"models">>, BACKEND \o <<"jobs">> >>

\* The directories create_type_dirs makes besides src, in the order it makes them.
TypeDirList(project_type) ==
  IF project_type = <<"web-app">>
    THEN << FRONTEND, BACKEND, <<"src", "shared">>,
            <<"tests", "frontend">>, <<"tests", "backend">> >>
  ELSE IF project_type = <<"service-api">>
    THEN << <<"src", "app">>, <<"src", "core">>, <<"src", "adapters">> >>
  ELSE IF project_type = <<"tool-script">>
    THEN << <<"src", "cli">>, <<"src", "core">> >>
  ELSE << >>

Range(s) == { s[i] : i \in 1..Len(s) }

FINTECH_NOTES == <<"docs", "fintech-notes.md">>

DOCKER_EXAMPLE == <<"infra", "docker-compose.example.yml">>

FRONTEND_README == FRONTEND \o <<"README.md">>

BACKEND_README == BACKEND \o <<"README.md">>

\* A file of the user's that the program never names.
NOTES == <<"notes.txt">>

Parent(p) == SubSeq(p, 1, Len(p) - 1)

\* p is q or lies below q
Under(p, q) == Len(p) >= Len(q) /\ SubSeq(p, 1, Len(q)) = q

\* A node of the tree: a directory, or a file with its content.  The
\* filesystem is a function from the paths that exist to their nodes.
Absent == [kind |-> "absent"]

DirNode == [kind |-> "dir"]

FileNode(content) == [kind |-> "file", content |-> content]

\* Text written by the user, not by the program.
UserText(tag) == [what |-> tag]

\* What is at the path.
At(f, p) == IF p \in DOMAIN f THEN f[p] ELSE Absent

\* Path.exists()
Exists(f, p) == p \in DOMAIN f

IsDir(f, p) == At(f, p).kind = "dir"

IsFile(f, p) == At(f, p).kind = "file"

\* f with the node put at the path.
Put(f, p, node) == [q \in DOMAIN f \cup {p} |-> IF q = p THEN node ELSE f[q]]

\* The result of a filesystem call: whether it returned (ok) or raised
\* OSError, and the filesystem it leaves.
Ok(f) == [ok |-> TRUE, fs |-> f]

Raised(f) == [ok |-> FALSE, fs |-> f]

\* Path.mkdir(parents=True, exist_ok=True)
RECURSIVE Mkdir(_, _)
Mkdir(f, p) ==
  IF IsDir(f, p) THEN Ok(f)
  ELSE IF IsFile(f, p) THEN Raised(f)
  ELSE IF p = ROOT THEN Ok(Put(f, p, DirNode))
  ELSE LET up == Mkdir(f, Parent(p))
       IN  IF up.ok THEN Ok(Put(up.fs, p, DirNode)) ELSE up

\* Path.mkdir(exist_ok=True): the parent is not created.
MkdirNoParents(f, p) ==
  IF IsDir(f, p) THEN Ok(f)
  ELSE IF IsFile(f, p) THEN Raised(f)
  ELSE IF p # ROOT /\ ~IsDir(f, Parent(p)) THEN Raised(f)
  ELSE Ok(Put(f, p, DirNode))

\* A for loop of mkdir calls: it stops at the first one that raises.
RECURSIVE MkdirEach(_, _)
MkdirEach(f, dirs) ==
  IF dirs = << >> THEN Ok(f)
  ELSE LET first == Mkdir(f, Head(dirs))
       IN  IF first.ok THEN MkdirEach(first.fs, Tail(dirs)) ELSE first

\* write_file with the overwrite test left out: every call writes.
write_file_always(f, path, content, overwrite) ==
  LET up == Mkdir(f, Parent(path))
  IN  IF ~up.ok THEN up
      ELSE IF IsDir(up.fs, path) THEN Raised(up.fs)
      ELSE Ok(Put(up.fs, path, FileNode(content)))

\* write_file(path, content, overwrite): write_text on a directory raises.
write_file(f, path, content, overwrite) ==
  IF Exists(f, path) /\ ~overwrite THEN Ok(f)
  ELSE LET up == Mkdir(f, Parent(path))
       IN  IF ~up.ok THEN up
           ELSE IF IsDir(up.fs, path) THEN Raised(up.fs)
           ELSE Ok(Put(up.fs, path, FileNode(content)))

\* A sequence of write_file calls <<path, content>> with overwrite=False.
RECURSIVE WriteEach(_, _)
WriteEach(f, files) ==
  IF files = << >> THEN Ok(f)
  ELSE LET first == write_file(f, Head(files)[1], Head(files)[2], FALSE)
       IN  IF first.ok THEN WriteEach(first.fs, Tail(files)) ELSE first

\* A tree given by its directories and its files (files of the user's).
Tree(dirs, files) ==
  [p \in dirs \cup files |-> IF p \in dirs THEN DirNode ELSE FileNode(UserText("user"))]

\* The tree with nothing at or below the project root.
EmptyFS == Tree({}, {})

\* --------------------------------------------------------------------------
\* Generated texts
\* --------------------------------------------------------------------------

\* datetime.now() is the clock value; strftime("%Y-%m-%d") and .year keep
\* less of it.
DateOf(t) == t \div 2

YearOf(t) == DateOf(t) \div 2

ReadmeText(name, cn_name, project_type, template) ==
  [what |-> "README.md", project_name |-> name, project_cn_name |-> cn_name,
   project_type |-> project_type, template |-> template]

EnvText == [what |-> ".env.example"]

LicenseText(t) == [what |-> "LICENSE", year |-> YearOf(t)]

ChangelogText(t) == [what |-> "CHANGELOG.md", today |-> DateOf(t)]

BriefText(meta) ==
  [what |-> "project-brief.md", project_name |-> meta.project_name,
   project_cn_name |-> meta.project_cn_name, duration_weeks |-> meta.duration_weeks,
   hours_per_week |-> meta.hours_per_week]

RoadmapText == [what |-> "roadmap.md"]

DevLogText(t) == [what |-> "dev-log.md", today |-> DateOf(t)]

DecisionsText == [what |-> "decisions.md"]

FrontendReadmeText == [what |-> "frontend/README.md"]

BackendReadmeText == [what |-> "backend/README.md"]

DockerExampleText == [what |-> "docker-compose.example.yml"]

FintechNotesText == [what |-> "fintech-notes.md"]

\* json.dumps({**meta, "created_at": ..., "scaffold_version": "2.0"}) + "\n"
MetaJson(meta, t) ==
  [project_name |-> meta.project_name, project_cn_name |-> meta.project_cn_name,
   project_type |-> meta.project_type, template |-> meta.template,
   duration_weeks |-> meta.duration_weeks, hours_per_week |-> meta.hours_per_week,
   created_at |-> t, scaffold_version |-> "2.0"]

\* --------------------------------------------------------------------------
\* The operations on the project tree
\* --------------------------------------------------------------------------

create_common_dirs(f) == MkdirEach(f, COMMON_DIRS)

\* create_type_dirs without the two directories under tests.
create_type_dirs_src_only(f, project_type) ==
  LET src == MkdirNoParents(f, SRC)
      dirs == TypeDirList(project_type)
  IN  IF src.ok
        THEN MkdirEach(src.fs, SubSeq(dirs, 1, IF Len(dirs) > 3 THEN 3 ELSE Len(dirs)))
        ELSE src

create_type_dirs(f, project_type) ==
  LET src == MkdirNoParents(f, SRC)
  IN  IF src.ok THEN MkdirEach(src.fs, TypeDirList(project_type)) ELSE src

\* init_readme writing with overwrite=True.
init_readme_overwriting(f, name, cn_name, project_type, template) ==
  write_file(f, <<"README.md">>, ReadmeText(name, cn_name, project_type, template), TRUE)

init_readme(f, name, cn_name, project_type, template) ==
  write_file(f, <<"README.md">>, ReadmeText(name, cn_name, project_type, template), FALSE)

init_env_example(f) == write_file(f, <<".env.example">>, EnvText, FALSE)

init_license(f, t) == write_file(f, <<"LICENSE">>, LicenseText(t), FALSE)

init_changelog(f, t) == write_file(f, <<"CHANGELOG.md">>, ChangelogText(t), FALSE)

init_docs(f, meta, t) ==
  WriteEach(f, << << <<"docs", "project-brief.md">>, BriefText(meta) >>,
                  << <<"docs", "roadmap.md">>, RoadmapText >>,
                  << <<"docs", "dev-log.md">>, DevLogText(t) >>,
                  << <<"docs", "decisions.md">>, DecisionsText >> >>)

\* The frontend (or backend) step of the fintech-dapp template: the
\* subdirectories, then the README.
FintechSubtree(f, subdirs, readme, text) ==
  LET made == MkdirEach(f, subdirs)
  IN  IF made.ok THEN write_file(made.fs, readme, text, FALSE) ELSE made

\* apply_fintech_dapp_template deciding by the project type instead of by
\* what exists.
apply_fintech_by_type(f, project_type) ==
  LET web == project_type = <<"web-app">>
      front == IF web
                 THEN FintechSubtree(f, FRONTEND_SUBDIRS, FRONTEND_README, FrontendReadmeText)
                 ELSE Ok(f)
      back == IF ~front.ok THEN front
              ELSE IF web
                 THEN FintechSubtree(front.fs, BACKEND_SUBDIRS, BACKEND_README, BackendReadmeText)
                 ELSE front
  IN  IF ~back.ok THEN back
      ELSE WriteEach(back.fs, << <<DOCKER_EXAMPLE, DockerExampleText>>,
                                 <<FINTECH_NOTES, FintechNotesText>> >>)

apply_fintech_dapp_template(f, project_type) ==
  LET front == IF Exists(f, FRONTEND)
                 THEN FintechSubtree(f, FRONTEND_SUBDIRS, FRONTEND_README, FrontendReadmeText)
                 ELSE Ok(f)
      back == IF ~front.ok THEN front
              ELSE IF Exists(front.fs, BACKEND)
                 THEN FintechSubtree(front.fs, BACKEND_SUBDIRS, BACKEND_README, BackendReadmeText)
                 ELSE front
  IN  IF ~back.ok THEN back
      ELSE WriteEach(back.fs, << <<DOCKER_EXAMPLE, DockerExampleText>>,
                                 <<FINTECH_NOTES, FintechNotesText>> >>)

apply_template(f, project_type, template) ==
  IF template = <<"fintech-dapp">> THEN apply_fintech_dapp_template(f, project_type)
  ELSE Ok(f)

\* write_project_meta writing with the default overwrite=False.
write_project_meta_once(f, meta, t) == write_file(f, META, MetaJson(meta, t), FALSE)

write_project_meta(f, meta, t) == write_file(f, META, MetaJson(meta, t), TRUE)

\* --------------------------------------------------------------------------
\* The state
\* --------------------------------------------------------------------------

VARIABLES
  fs,       \* the filesystem at and below the project root
  now,      \* the clock
  runs,     \* how many times the command has been started
  pc,       \* where main() is
  args,     \* the parsed command line (argparse's namespace)
  cfg,      \* main()'s locals project_name ... hours_per_week, None until set
  raw,      \* prompt_if_missing's local raw
  confirm,  \* main()'s local confirm, None until the gate has asked
  fs0,      \* the filesystem as it was when the current run started
  fsGit,    \* the filesystem as it was when git_init was entered
  log,      \* the git commands the current run has run, with their outcome
  out,      \* the messages the current run has printed
  commits,  \* the scaffold commits in the repository at the project root
  calls     \* SpecWrite, SpecDirs: the calls made so far

vars == <<fs, now, runs, pc, args, cfg, raw, confirm, fs0, fsGit, log, out, commits, calls>>

\* main()'s configuration locals before they are assigned.
NoMeta ==
  [project_name |-> None, project_cn_name |-> None, project_type |-> None,
   template |-> None, duration_weeks |-> None, hours_per_week |-> None]

NoArgs ==
  [project_name |-> None, project_cn_name |-> None, project_type |-> None,
   template |-> None, no_git |-> FALSE]

\* Where a run has ended: normally, at the confirmation gate, with an
\* uncaught exception, or in argparse with a usage error.
Ended == {"idle", "done", "cancelled", "crashed", "usage"}

\* --------------------------------------------------------------------------
\* Inputs
\* --------------------------------------------------------------------------

\* Command lines: each option is absent, given a valid value, or (the two
\* with choices=) given a value outside the choices.
CommandLines ==
  [project_name : {None, <<"demo">>},
   project_cn_name : {None, <<"demo">>},
   project_type : PROJECT_TYPES \cup {None, <<"desktop">>},
   template : TEMPLATES \cup {None, <<"blog">>},
   no_git : BOOLEAN]

\* Lines typed at a prompt.
NameLines == { << >>, <<" ">>, <<" ", "demo", " ">> }

CnNameLines == { << >>, <<"demo", " ">> }

TypeLines ==
  { << >>, <<"desktop">>, <<" ", "web-app">>, <<"service-api">>, <<"tool-script", " ">> }

TemplateLines == { << >>, <<"blog">>, <<"default">>, <<"fintech-dapp">> }

DurationLines == { << >>, <<" ">>, <<"4">> }

HoursLines == { << >>, <<"20", " ">> }

ConfirmLines == { << >>, <<"n">>, <<"y">>, <<" ", "Y">>, <<"y", "e", "s">> }

\* What a subprocess.run call can meet: the command exits 0, exits non-zero,
\* or cannot be started (FileNotFoundError).
Outcomes == {"zero", "nonzero", "absent"}

EditedFiles == { <<"README.md">>, META }

\* The project roots a first run can find.
InitFS ==
  { EmptyFS,
    Tree({ROOT}, {}),
    Tree({}, {ROOT}),
    Tree({ROOT}, {NOTES}),
    Tree({ROOT}, {<<"README.md">>, META}),
    Tree({ROOT, SRC, FRONTEND}, {}),
    Tree({ROOT}, {<<"docs">>}),
    Tree({ROOT, META}, {}),
    Tree({ROOT, GIT}, {NOTES}) }

\* --------------------------------------------------------------------------
\* main(): argument resolution
\* --------------------------------------------------------------------------

\* One pass of prompt_if_missing: with a value it returns it at once;
\* otherwise it reads one line and either returns or goes round the loop.
\* default = None stands for no default, choices = {} for no choices.
prompt_no_choice_check(value, line, default, choices) ==
  IF value # None THEN [returned |-> TRUE, value |-> value]
  ELSE LET stripped == Strip(line)
           answer == IF default # None /\ stripped = << >> THEN default ELSE stripped
       IN  [returned |-> answer # << >>, value |-> answer]

prompt_if_missing(value, line, default, choices) ==
  IF value # None THEN [returned |-> TRUE, value |-> value]
  ELSE LET stripped == Strip(line)
           answer == IF default # None /\ stripped = << >> THEN default ELSE stripped
       IN  IF choices # {} /\ answer \notin choices
             THEN [returned |-> FALSE, value |-> answer]
           ELSE [returned |-> answer # << >>, value |-> answer]

\* parse_args(): argparse rejects a value outside choices= and exits.
parse_args(argv) ==
  IF argv.project_type \notin PROJECT_TYPES \cup {None} THEN [ok |-> FALSE, args |-> NoArgs]
  ELSE IF argv.template \notin TEMPLATES \cup {None} THEN [ok |-> FALSE, args |-> NoArgs]
  ELSE [ok |-> TRUE, args |-> argv]

\* The command is started (again): time has passed, argparse runs.
Start ==
  /\ pc \in Ended
  /\ runs < MaxRuns
  /\ \E argv \in CommandLines :
       LET parsed == parse_args(argv)
       IN  /\ args' = parsed.args
           /\ pc' = IF parsed.ok THEN "project_name" ELSE "usage"
  /\ runs' = runs + 1
  /\ now' = now + 1
  /\ fs0' = fs
  /\ fsGit' = fs
  /\ cfg' = NoMeta
  /\ raw' = None
  /\ confirm' = None
  /\ log' = << >>
  /\ out' = {}
  /\ UNCHANGED <<fs, commits, calls>>

\* Between two runs the user rewrites a file of the project.
UserEdit ==
  /\ pc \in Ended \ {"idle"}
  /\ runs < MaxRuns
  /\ \E p \in EditedFiles :
       /\ IsFile(fs, p)
       /\ fs' = Put(fs, p, FileNode(UserText("edited")))
  /\ pc' = "idle"
  /\ fs0' = fs'
  /\ fsGit' = fs'
  /\ args' = NoArgs
  /\ cfg' = NoMeta
  /\ raw' = None
  /\ confirm' = None
  /\ log' = << >>
  /\ out' = {}
  /\ UNCHANGED <<now, runs, commits, calls>>

\* One prompt_if_missing call of main(), one line of input at a time.  A
\* command-line value is read once; the model forgets it after that read.
Resolve(at, field, lines, default, choices, next) ==
  /\ pc = at
  /\ \E line \in (IF field \in DOMAIN args /\ args[field] # None THEN {None} ELSE lines) :
       LET value == IF field \in DOMAIN args THEN args[field] ELSE None
           got == prompt_if_missing(value, line, default, choices)
       IN  IF got.returned
             THEN /\ cfg' = [cfg EXCEPT ![field] = got.value]
                  /\ raw' = None
                  /\ args' = IF field \in DOMAIN args
                               THEN [args EXCEPT ![field] = None] ELSE args
                  /\ pc' = next
             ELSE /\ raw' = got.value
                  /\ UNCHANGED <<cfg, args, pc>>
  /\ UNCHANGED <<fs, now, runs, confirm, fs0, fsGit, log, out, commits, calls>>

PromptProjectName ==
  Resolve("project_name", "project_name", NameLines, None, {}, "project_cn_name")

PromptCnName ==
  Resolve("project_cn_name", "project_cn_name", CnNameLines, cfg.project_name, {},
          "project_type")

PromptProjectType ==
  Resolve("project_type", "project_type", TypeLines, None, PROJECT_TYPES, "template")

PromptTemplate ==
  Resolve("template", "template", TemplateLines, <<"default">>, TEMPLATES,
          "duration_weeks")

PromptDurationWeeks ==
  Resolve("duration_weeks", "duration_weeks", DurationLines, <<"4">>, {}, "hours_per_week")

PromptHoursPerWeek ==
  Resolve("hours_per_week", "hours_per_week", HoursLines, <<"20">>, {}, "gate")

\* --------------------------------------------------------------------------
\* main(): the confirmation gate
\* --------------------------------------------------------------------------

\* any(project_root.iterdir())
NonEmpty(f, dir) == \E p \in DOMAIN f : p # ROOT /\ Parent(p) = dir

\* The test of the gate with the answer taken for yes whatever it is.
proceeds_always(answer) == TRUE

\* The test `confirm != "y"` of the gate, negated.
proceeds(answer) == answer = <<"y">>

\* The gate: a project root that is a directory with entries makes the
\* program ask; iterdir() on a root that is a file raises.
ConfirmGate ==
  /\ pc = "gate"
  /\ IF IsFile(fs, ROOT)
       THEN pc' = "crashed" /\ UNCHANGED <<out, confirm>>
     ELSE IF IsDir(fs, ROOT) /\ NonEmpty(fs, ROOT)
       THEN \E line \in ConfirmLines :
              /\ confirm' = Lower(Strip(line))
              /\ IF proceeds(confirm')
                   THEN pc' = "mkroot" /\ out' = out \cup {"not empty"}
                   ELSE pc' = "cancelled" /\ out' = out \cup {"not empty", "cancelled"}
     ELSE pc' = "mkroot" /\ UNCHANGED <<out, confirm>>
  /\ UNCHANGED <<fs, now, runs, args, cfg, raw, fs0, fsGit, log, commits, calls>>

\* --------------------------------------------------------------------------
\* main(): generation
\* --------------------------------------------------------------------------

\* A step of main() that calls one operation on the tree: an exception ends
\* the run where the operation stopped.
Step(at, result, next) ==
  /\ pc = at
  /\ fs' = result.fs
  /\ pc' = IF result.ok THEN next ELSE "crashed"
  /\ UNCHANGED <<now, runs, args, cfg, raw, confirm, fs0, fsGit, log, out, commits, calls>>

MkRoot == Step("mkroot", Mkdir(fs, ROOT), "create_common_dirs")

CreateCommonDirs == Step("create_common_dirs", create_common_dirs(fs), "create_type_dirs")

CreateTypeDirs ==
  Step("create_type_dirs", create_type_dirs(fs, cfg.project_type), "init_readme")

InitReadme ==
  Step("init_readme",
       init_readme(fs, cfg.project_name, cfg.project_cn_name, cfg.project_type,
                   cfg.template),
       "init_env_example")

InitEnvExample == Step("init_env_example", init_env_example(fs), "init_license")

InitLicense == Step("init_license", init_license(fs, now), "init_changelog")

InitChangelog == Step("init_changelog", init_changelog(fs, now), "init_docs")

InitDocs == Step("init_docs", init_docs(fs, cfg, now), "apply_template")

ApplyTemplate ==
  Step("apply_template", apply_template(fs, cfg.project_type, cfg.template),
       "write_project_meta")

WriteProjectMeta == Step("write_project_meta", write_project_meta(fs, cfg, now), "git_init")

\* --------------------------------------------------------------------------
\* main(): git_init
\* --------------------------------------------------------------------------

\* Whether subprocess.run raises: always when the command cannot be started,
\* and on a non-zero exit only with check=True.
RunRaises(outcome, check) == outcome = "absent" \/ (check /\ outcome = "nonzero")

Ran(cmd, outcome) == [cmd |-> cmd, ok |-> outcome = "zero"]

\* The exception handler of git_init's second block left out.
GitFails_uncaught == "crashed"

\* Where an exception of init, add or commit leaves the run: caught in
\* git_init, main() goes on to its end.
GitFails == "done"

\* main() tests --no-git; git_init starts with git --version, run without
\* check=True inside its own try block.
GitProbe ==
  /\ pc = "git_init"
  /\ fsGit' = fs
  /\ IF args.no_git
       THEN pc' = "done" /\ UNCHANGED <<log, out>>
       ELSE \E outcome \in Outcomes :
              /\ log' = Append(log, Ran("version", outcome))
              /\ IF RunRaises(outcome, FALSE)
                   THEN pc' = "done" /\ out' = out \cup {"no git"}
                   ELSE pc' = "git_marker" /\ out' = out
  /\ UNCHANGED <<fs, now, runs, args, cfg, raw, confirm, fs0, commits, calls>>

\* The test for the repository marker with the test left out.
marker_ignored(f) == FALSE

\* (project_root / ".git").exists()
marker_exists(f) == Exists(f, GIT)

GitMarker ==
  /\ pc = "git_marker"
  /\ IF marker_exists(fs)
       THEN pc' = "done" /\ out' = out \cup {"already a repository"}
       ELSE pc' = "git_run_init" /\ out' = out
  /\ UNCHANGED <<fs, now, runs, args, cfg, raw, confirm, fs0, fsGit, log, commits, calls>>

\* git init: on success the marker is there; a failed init may have made it.
GitRunInit ==
  /\ pc = "git_run_init"
  /\ \E outcome \in Outcomes :
       /\ log' = Append(log, Ran("init", outcome))
       /\ IF RunRaises(outcome, TRUE)
            THEN /\ pc' = GitFails
                 /\ out' = out \cup {"git failed"}
                 /\ \/ fs' = fs
                    \/ outcome = "nonzero" /\ fs' = Put(fs, GIT, DirNode)
            ELSE /\ pc' = "git_add"
                 /\ out' = out
                 /\ fs' = Put(fs, GIT, DirNode)
  /\ UNCHANGED <<now, runs, args, cfg, raw, confirm, fs0, fsGit, commits, calls>>

\* git add .
GitAdd ==
  /\ pc = "git_add"
  /\ \E outcome \in Outcomes :
       /\ log' = Append(log, Ran("add", outcome))
       /\ IF RunRaises(outcome, TRUE)
            THEN pc' = GitFails /\ out' = out \cup {"git failed"}
            ELSE pc' = "git_commit" /\ out' = out
  /\ UNCHANGED <<fs, now, runs, args, cfg, raw, confirm, fs0, fsGit, commits, calls>>

\* git commit -m "chore: init project from scaffold v2"
GitCommit ==
  /\ pc = "git_commit"
  /\ \E outcome \in Outcomes :
       /\ log' = Append(log, Ran("commit", outcome))
       /\ IF RunRaises(outcome, TRUE)
            THEN pc' = GitFails /\ out' = out \cup {"git failed"} /\ commits' = commits
            ELSE pc' = "done" /\ out' = out \cup {"git ok"} /\ commits' = commits + 1
  /\ UNCHANGED <<fs, now, runs, args, cfg, raw, confirm, fs0, fsGit, calls>>

\* --------------------------------------------------------------------------
\* The command, run up to MaxRuns times against one project root, which the
\* user may edit between the runs
\* --------------------------------------------------------------------------

Init ==
  /\ fs \in InitFS
  /\ now = 0
  /\ runs = 0
  /\ pc = "idle"
  /\ args = NoArgs
  /\ cfg = NoMeta
  /\ raw = None
  /\ confirm = None
  /\ fs0 = fs
  /\ fsGit = fs
  /\ log = << >>
  /\ out = {}
  /\ commits = 0
  /\ calls = << >>

Next ==
  \/ Start
  \/ UserEdit
  \/ PromptProjectName
  \/ PromptCnName
  \/ PromptProjectType
  \/ PromptTemplate
  \/ PromptDurationWeeks
  \/ PromptHoursPerWeek
  \/ ConfirmGate
  \/ MkRoot
  \/ CreateCommonDirs
  \/ CreateTypeDirs
  \/ InitReadme
  \/ InitEnvExample
  \/ InitLicense
  \/ InitChangelog
  \/ InitDocs
  \/ ApplyTemplate
  \/ WriteProjectMeta
  \/ GitProbe
  \/ GitMarker
  \/ GitRunInit
  \/ GitAdd
  \/ GitCommit

Spec == Init /\ [][Next]_vars

\* --------------------------------------------------------------------------
\* write_file alone: calls in a row, any path, content and flag
\* --------------------------------------------------------------------------

WritePaths == { <<"README.md">>, <<"docs", "roadmap.md">> }

WriteContents == { UserText("c1"), UserText("c2") }

\* The trees the calls start from: nothing there, the path there as a file or
\* as a directory, its parent there as a directory or as a file.
WriteInitFS ==
  { EmptyFS,
    Tree({ROOT}, {}),
    Tree({ROOT}, {<<"README.md">>}),
    Tree({ROOT, <<"README.md">>}, {}),
    Tree({ROOT, <<"docs">>}, {}),
    Tree({ROOT, <<"docs">>}, {<<"docs", "roadmap.md">>}),
    Tree({ROOT}, {<<"docs">>}),
    Tree({}, {ROOT}) }

Idle ==
  /\ now = 0
  /\ runs = 0
  /\ args = NoArgs
  /\ cfg = NoMeta
  /\ raw = None
  /\ confirm = None
  /\ fs0 = fs
  /\ fsGit = fs
  /\ log = << >>
  /\ out = {}
  /\ commits = 0
  /\ calls = << >>

WriteInit == fs \in WriteInitFS /\ pc = "write_file" /\ Idle

\* One call; the record keeps what was at the path before and after it, and
\* whether an ancestor of the path was a regular file.
WriteCall ==
  /\ pc = "write_file"
  /\ Len(calls) < MaxCalls
  /\ \E path \in WritePaths, content \in WriteContents, overwrite \in BOOLEAN :
       LET result == write_file(fs, path, content, overwrite)
       IN  /\ fs' = result.fs
           /\ calls' = Append(calls, [path |-> path, content |-> content,
                                      overwrite |-> overwrite, ok |-> result.ok,
                                      blocked |-> ~Mkdir(fs, Parent(path)).ok,
                                      before |-> At(fs, path), after |-> At(result.fs, path)])
  /\ UNCHANGED <<now, runs, pc, args, cfg, raw, confirm, fs0, fsGit, log, out, commits>>

SpecWrite == WriteInit /\ [][WriteCall]_vars

\* --------------------------------------------------------------------------
\* The directory planner alone: create_common_dirs then create_type_dirs,
\* applied again to its own result
\* --------------------------------------------------------------------------

\* The project roots the planner starts from.
DirsInitFS ==
  { Tree({ROOT}, {}),
    Tree({ROOT}, {NOTES}),
    Tree({ROOT, <<"docs">>}, {}),
    Tree({ROOT, SRC, FRONTEND}, {}),
    Tree({ROOT, SRC}, {<<"src", "core">>}),
    Tree({ROOT, <<"tests">>}, {<<"tests", "frontend">>}),
    Tree({ROOT}, {<<"infra">>}),
    Tree({ROOT}, {SRC}),
    Tree({ROOT, SRC, BACKEND}, {}),
    EmptyFS }

DirsInit ==
  /\ fs \in DirsInitFS
  /\ pc = "create_common_dirs"
  /\ \E t \in PROJECT_TYPES : cfg = [NoMeta EXCEPT !.project_type = t]
  /\ now = 0
  /\ runs = 0
  /\ args = NoArgs
  /\ raw = None
  /\ confirm = None
  /\ fs0 = fs
  /\ fsGit = fs
  /\ log = << >>
  /\ out = {}
  /\ commits = 0
  /\ calls = << >>

\* How many times the pair has been applied in full.
Passes == Cardinality({ i \in 1..Len(calls) : calls[i].op = "create_type_dirs" })

PlanCommonDirs ==
  /\ pc = "create_common_dirs"
  /\ Passes < MaxPasses
  /\ LET result == create_common_dirs(fs)
     IN  /\ fs' = result.fs
         /\ pc' = IF result.ok THEN "create_type_dirs" ELSE "crashed"
         /\ calls' = Append(calls, [op |-> "create_common_dirs", ok |-> result.ok,
                                    before |-> fs])
  /\ UNCHANGED <<now, runs, args, cfg, raw, confirm, fs0, fsGit, log, out, commits>>

PlanTypeDirs ==
  /\ pc = "create_type_dirs"
  /\ LET result == create_type_dirs(fs, cfg.project_type)
     IN  /\ fs' = result.fs
         /\ pc' = IF result.ok THEN "create_common_dirs" ELSE "crashed"
         /\ calls' = Append(calls, [op |-> "create_type_dirs", ok |-> result.ok,
                                    before |-> fs])
  /\ UNCHANGED <<now, runs, args, cfg, raw, confirm, fs0, fsGit, log, out, commits>>

SpecDirs == DirsInit /\ [][PlanCommonDirs \/ PlanTypeDirs]_vars

\* --------------------------------------------------------------------------
\* Properties
\* --------------------------------------------------------------------------

ResolutionPCs ==
  {"project_name", "project_cn_name", "project_type", "template", "duration_weeks",
   "hours_per_week", "gate"}

GenerationPCs ==
  {"mkroot", "create_common_dirs", "create_type_dirs", "init_readme", "init_env_example",
   "init_license", "init_changelog", "init_docs", "apply_template", "write_project_meta",
   "git_init"}

\* Inside git_init, after the version probe.
GitPCs == {"git_marker", "git_run_init", "git_add", "git_commit"}

MetaKeys ==
  {"project_name", "project_cn_name", "project_type", "template", "duration_weeks",
   "hours_per_week"}

\* The call met no filesystem error of the kind the program leaves fatal:
\* the path was no directory and no ancestor of it a regular file.
Writable(call) == call.before.kind # "dir" /\ ~call.blocked

\* C1 as stated, read for calls that meet no filesystem error: of two
\* successive write_file calls on one path with contents c1 then c2, two calls
\* with overwrite=false leave the file holding c1 and the second raises
\* nothing, a second call with overwrite=true leaves it holding c2, and a
\* call on a path that does not exist leaves the file holding its content.
C1_AsStated ==
  /\ \A i \in 1..Len(calls) :
       (Writable(calls[i]) /\ calls[i].before.kind = "absent")
         => calls[i].after = FileNode(calls[i].content)
  /\ \A i \in 1..(Len(calls) - 1) :
       LET a == calls[i]
           b == calls[i + 1]
       IN  (a.path = b.path /\ Writable(a)) =>
             /\ (~a.overwrite /\ ~b.overwrite) => (b.ok /\ b.after = FileNode(a.content))
             /\ b.overwrite => b.after = FileNode(b.content)

\* C1, amended: for calls that meet no filesystem error (the path is no
\* directory, no ancestor of it a regular file), a call on a path that does
\* not exist leaves the file holding its content whatever the flag; a second
\* call with overwrite=false raises nothing and changes nothing, so that two
\* calls with overwrite=false leave the file holding c1 when the path did not
\* exist before the first call, and holding what it held before the first
\* call when it did; a second call with overwrite=true leaves the file
\* holding exactly c2.
C1_WriterIdempotence ==
  /\ \A i \in 1..Len(calls) :
       (Writable(calls[i]) /\ calls[i].before.kind = "absent")
         => (calls[i].ok /\ calls[i].after = FileNode(calls[i].content))
  /\ \A i \in 1..(Len(calls) - 1) :
       LET a == calls[i]
           b == calls[i + 1]
       IN  (a.path = b.path /\ Writable(a)) =>
             /\ a.ok
             /\ ~b.overwrite => (b.ok /\ b.after = a.after)
             /\ (~a.overwrite /\ ~b.overwrite /\ a.before.kind = "absent")
                  => b.after = FileNode(a.content)
             /\ (~a.overwrite /\ ~b.overwrite /\ a.before.kind # "absent")
                  => b.after = a.before
             /\ b.overwrite => (b.ok /\ b.after = FileNode(b.content))

\* Two calls with overwrite=false and different contents on a path that did
\* not exist: the file holds the first content.
C1_Witness ==
  /\ Len(calls) = 2
  /\ calls[1].path = calls[2].path
  /\ ~calls[1].overwrite /\ ~calls[2].overwrite
  /\ calls[1].before.kind = "absent"
  /\ calls[1].content # calls[2].content
  /\ calls[2].ok
  /\ At(fs, calls[1].path) = FileNode(calls[1].content)

\* The project root was a directory with entries when the run started.
RootNonEmptyAtStart == IsDir(fs0, ROOT) /\ NonEmpty(fs0, ROOT)

\* C2: in a run whose project root exists and is not empty, nothing under the
\* root is changed and no git command is run before the user was asked, and
\* after any answer other than "y" the run has ended cancelled with the
\* filesystem as it was when the run started and no git command run.
C2_ConfirmationGate ==
  (runs > 0 /\ RootNonEmptyAtStart) =>
    /\ (fs # fs0 \/ log # << >> \/ pc \in GenerationPCs \cup GitPCs \cup {"done"})
         => ("not empty" \in out /\ confirm = <<"y">>)
    /\ ("not empty" \in out /\ confirm # <<"y">>)
         => (pc = "cancelled" /\ fs = fs0 /\ log = << >>)

\* The empty answer at the gate of a non-empty root: cancelled, nothing
\* changed, no project_meta.json.
C2_Witness ==
  /\ RootNonEmptyAtStart
  /\ "not empty" \in out
  /\ confirm = << >>
  /\ pc = "cancelled"
  /\ fs = fs0
  /\ ~Exists(fs, META)

ResolvedChoices ==
  /\ cfg.project_name # << >>
  /\ cfg.project_type \in PROJECT_TYPES
  /\ cfg.template \in TEMPLATES

\* C3: nothing is created while the configuration is being resolved; once
\* anything under the root has changed, and wherever generation is, the
\* project name is not empty and the type and the template are members of
\* their sets; a rejected answer leaves the program at the same prompt with
\* the field unset.
C3_ResolutionFirst ==
  /\ pc \in ResolutionPCs \cup {"usage"} => fs = fs0
  /\ fs # fs0 => ResolvedChoices
  /\ pc \in GenerationPCs => (ResolvedChoices /\ \A k \in MetaKeys : cfg[k] # << >>)
  /\ (pc = "project_type" /\ raw # None)
       => (raw \notin PROJECT_TYPES /\ cfg.project_type = None /\ fs = fs0)
  /\ (pc = "template" /\ raw # None)
       => (raw \notin TEMPLATES /\ cfg.template = None /\ fs = fs0)

\* The first change under a root that did not exist: the root has just been
\* made, with a complete and valid configuration.
C3_Witness ==
  /\ pc = "create_common_dirs"
  /\ ~Exists(fs0, ROOT)
  /\ IsDir(fs, ROOT)
  /\ ResolvedChoices

\* C4: during and after a run, every path that existed when the run started
\* is still there as what it was (file or directory), and every file other
\* than project_meta.json holds what it held.
C4_RerunPreserves ==
  \A p \in DOMAIN fs0 :
    /\ At(fs, p).kind = fs0[p].kind
    /\ p # META => At(fs, p) = fs0[p]

\* A run after the user rewrote the README that an earlier run generated has
\* ended: it added what was missing and the user's text is untouched.
C4_Witness ==
  /\ runs = 2
  /\ pc = "done"
  /\ fs # fs0
  /\ IsFile(fs0, <<"docs", "roadmap.md">>)
  /\ fs0[<<"README.md">>] = FileNode(UserText("edited"))
  /\ fs[<<"README.md">>] = fs0[<<"README.md">>]

\* project_meta.json holds this run's configuration, the time of this run
\* and the version string.
MetaIsOfThisRun ==
  /\ IsFile(fs, META)
  /\ DOMAIN fs[META].content = MetaKeys \cup {"created_at", "scaffold_version"}
  /\ \A k \in MetaKeys : fs[META].content[k] = cfg[k] /\ cfg[k] # << >>
  /\ fs[META].content.created_at = now
  /\ fs[META].content.scaffold_version = "2.0"

\* C5 as stated: after every run, also one cancelled at the gate,
\* project_meta.json holds the configuration that run resolved.
C5_AsStated == pc \in {"done", "cancelled"} => MetaIsOfThisRun

\* C5, amended: after every run that reaches its end (one neither cancelled
\* at the confirmation gate nor stopped by an exception), project_meta.json
\* holds exactly the configuration resolved by that run, created_at computed
\* in that run and scaffold_version, whatever it held before, and differs
\* from what it held before.
C5_MetaRefreshed ==
  pc = "done" => (MetaIsOfThisRun /\ fs[META] # At(fs0, META))

\* A second run with the configuration of the first has ended: the metadata
\* of the first run has been replaced.
C5_Witness ==
  /\ runs = 2
  /\ pc = "done"
  /\ IsFile(fs0, META)
  /\ "created_at" \in DOMAIN fs0[META].content
  /\ \A k \in MetaKeys : fs0[META].content[k] = cfg[k]
  /\ fs[META].content.created_at # fs0[META].content.created_at

CommonSet == { <<"docs">>, <<"tests">>, <<"scripts">>, <<"infra">>, <<"src">> }

\* The type-specific sets as the specification lists them.
TypeSet(project_type) ==
  IF project_type = <<"web-app">>
    THEN { <<"src", "frontend">>, <<"src", "backend">>, <<"src", "shared">>,
           <<"tests", "frontend">>, <<"tests", "backend">> }
  ELSE IF project_type = <<"service-api">>
    THEN { <<"src", "app">>, <<"src", "core">>, <<"src", "adapters">> }
  ELSE { <<"src", "cli">>, <<"src", "core">> }

EmptyRoot == Tree({ROOT}, {})

\* C6: under an empty project root, create_common_dirs followed by
\* create_type_dirs returns without error and leaves exactly the common set
\* and the set of the project type, all directories, and nothing else; and
\* from any root, applying the pair again after it succeeded raises nothing
\* and changes nothing.
C6_DirectoryPlan ==
  /\ (fs0 = EmptyRoot /\ Len(calls) >= 2) =>
       /\ calls[1].ok /\ calls[2].ok
       /\ DOMAIN fs = {ROOT} \cup CommonSet \cup TypeSet(cfg.project_type)
       /\ \A p \in DOMAIN fs : IsDir(fs, p)
  /\ \A i \in 3..Len(calls) : calls[i].ok /\ calls[i].before = fs

\* The pair applied twice to an empty root for a web-app.
C6_Witness ==
  /\ fs0 = EmptyRoot
  /\ Len(calls) = 4
  /\ cfg.project_type = <<"web-app">>
  /\ IsDir(fs, <<"tests", "backend">>)
  /\ calls[4].ok

\* The template step is behind the run.
AfterTemplate == pc \in {"write_project_meta", "git_init", "done"} \cup GitPCs

FintechArtifacts ==
  {FINTECH_NOTES, DOCKER_EXAMPLE, FRONTEND_README, BACKEND_README}
    \cup Range(FRONTEND_SUBDIRS) \cup Range(BACKEND_SUBDIRS)

\* The frontend (backend) step has been performed.
SubtreeDone(subdirs, readme) == (\A d \in Range(subdirs) : IsDir(fs, d)) /\ Exists(fs, readme)

\* The run has created something at or below the directory.
CreatedUnder(dir) == \E p \in DOMAIN fs : Under(p, dir) /\ At(fs0, p) # fs[p]

\* C7 as stated: with fintech-dapp the two files exist for every project
\* type, the frontend and backend steps are performed exactly when the type
\* is web-app, and a run of another type creates nothing under src/frontend
\* or src/backend, also against an existing root; with default none of the
\* fintech artifacts is created.
C7_AsStated ==
  AfterTemplate =>
    IF cfg.template = <<"fintech-dapp">>
      THEN /\ Exists(fs, FINTECH_NOTES) /\ Exists(fs, DOCKER_EXAMPLE)
           /\ cfg.project_type = <<"web-app">> =>
                /\ SubtreeDone(FRONTEND_SUBDIRS, FRONTEND_README)
                /\ SubtreeDone(BACKEND_SUBDIRS, BACKEND_README)
           /\ cfg.project_type # <<"web-app">> =>
                (~CreatedUnder(FRONTEND) /\ ~CreatedUnder(BACKEND))
      ELSE \A p \in FintechArtifacts : At(fs, p) = At(fs0, p)

\* What C7 amended says of one of the two directories in a run that is not a
\* web-app: the step is performed if the directory existed before the run,
\* and nothing is there otherwise.
SubtreeFollowsDir(dir, subdirs, readme) ==
  IF Exists(fs0, dir) THEN SubtreeDone(subdirs, readme)
  ELSE \A p \in DOMAIN fs : ~Under(p, dir)

\* C7, amended: in every run that gets past the template step, with
\* fintech-dapp the two files exist for every project type, and the frontend
\* (backend) step is performed exactly when src/frontend (src/backend) exists
\* when the template is applied: always for a web-app, and for another type
\* exactly when that directory existed before the run, where the run then
\* does make the subdirectories and the README under it; with default none
\* of the fintech artifacts is created.
C7_TemplateByDirectory ==
  AfterTemplate =>
    IF cfg.template = <<"fintech-dapp">>
      THEN /\ Exists(fs, FINTECH_NOTES) /\ Exists(fs, DOCKER_EXAMPLE)
           /\ cfg.project_type = <<"web-app">> =>
                /\ SubtreeDone(FRONTEND_SUBDIRS, FRONTEND_README)
                /\ SubtreeDone(BACKEND_SUBDIRS, BACKEND_README)
           /\ cfg.project_type # <<"web-app">> =>
                /\ SubtreeFollowsDir(FRONTEND, FRONTEND_SUBDIRS, FRONTEND_README)
                /\ SubtreeFollowsDir(BACKEND, BACKEND_SUBDIRS, BACKEND_README)
      ELSE \A p \in FintechArtifacts : At(fs, p) = At(fs0, p)

\* A tool-script run with fintech-dapp against a root that had src/frontend
\* and no src/backend: the frontend step was performed, the backend one not.
C7_Witness ==
  /\ pc = "done"
  /\ cfg.template = <<"fintech-dapp">>
  /\ cfg.project_type = <<"tool-script">>
  /\ Exists(fs0, FRONTEND)
  /\ ~Exists(fs0, FRONTEND \o <<"pages">>)
  /\ IsDir(fs, FRONTEND \o <<"pages">>)
  /\ ~Exists(fs, BACKEND)
  /\ Exists(fs, FINTECH_NOTES)

\* C8: once git_init has run its probe, whatever the git commands do, the
\* run is inside git_init with a step to take or at its normal end, never
\* stopped by an exception, and everything outside the repository marker is
\* as it was when git_init was entered, project_meta.json included.
C8_GitBestEffort ==
  log # << >> =>
    /\ pc \in GitPCs \cup {"done"}
    /\ pc \in GitPCs => ENABLED (GitMarker \/ GitRunInit \/ GitAdd \/ GitCommit)
    /\ \A p \in (DOMAIN fs \cup DOMAIN fsGit) \ {GIT} : At(fs, p) = At(fsGit, p)
    /\ IsFile(fs, META)

\* git commit failed after init and add succeeded: the run ended normally
\* with the tree in place.
C8_Witness ==
  /\ pc = "done"
  /\ Len(log) = 4
  /\ log[3].ok
  /\ ~log[4].ok
  /\ "git failed" \in out
  /\ IsFile(fs, META)
  /\ IsFile(fs, <<"README.md">>)

\* C9 as stated: the git steps run in the order version, init, add, commit,
\* each only after the one before it succeeded; the success message comes
\* only after four successes; with --no-git none is run.
C9_AsStated ==
  /\ \A i \in 1..Len(log) : i <= 4 /\ log[i].cmd = <<"version", "init", "add", "commit">>[i]
  /\ \A i \in 2..Len(log) : log[i - 1].ok
  /\ "git ok" \in out => (Len(log) = 4 /\ \A i \in 1..4 : log[i].ok)
  /\ args.no_git => log = << >>

\* C10: a run that finds the repository marker when it starts runs no git
\* init, add or commit and makes no commit, and the repository at the project
\* root never holds more than one scaffold commit.
C10_SingleScaffoldCommit ==
  /\ commits <= 1
  /\ Exists(fs0, GIT) => \A i \in 1..Len(log) : log[i].cmd = "version"
  /\ (Exists(fs0, GIT) /\ "already a repository" \in out) => pc = "done"

\* A second run against a root where the first run made the marker and no
\* commit: git_init skips, and there is still no scaffold commit.
C10_Witness ==
  /\ runs = 2
  /\ pc = "done"
  /\ Exists(fs0, GIT)
  /\ ~Exists(fs, NOTES)
  /\ commits = 0
  /\ "already a repository" \in out
  /\ log = << Ran("version", "zero") >>

====
